---------------------------- MODULE Spec2Model ----------------------------
(***************************************************************************)
(* Sistema-Livraria: the book table, its rolling backups, the CRUD         *)
(* handlers of the HTTP API (app.py) and of the CLI (sistema_livraria.py), *)
(* and the CSV export / import of both front ends.                         *)
(*                                                                         *)
(* Text is a sequence of one-character strings, so that int(), float(),    *)
(* repr(), csv.writer and csv.reader are computed character by character.  *)
(* Prices are floats in the code; here a price is an exact number of       *)
(* tenths (100 is 10.0), and every price text of the model has at most one *)
(* fractional digit.                                                       *)
(***************************************************************************)
EXTENDS Integers, Sequences, FiniteSets, TLC

VARIABLES
    livros,     \* the rows of table livros
    seq,        \* sqlite_sequence of livros: the largest id ever assigned
    dbMtime,    \* mtime of livraria.db: the tick of its last commit
    backups,    \* the files of the backup directory
    exportado,  \* the most recent exported CSV file
    now,        \* the clock, in ticks
    resp,       \* what the last request returned
    assigned,   \* history: every id ever assigned
    created,    \* history: the name of every snapshot ever written
    nops,       \* history: how many requests committed a change, up to MaxOps
    disco,      \* the fault the file system raises in the backup directory
    threads     \* the API requests in progress, one to a worker thread

vars == <<livros, seq, dbMtime, backups, exportado, now, resp, assigned, created, nops,
          disco, threads>>

---------------------------------------------------------------------------
(* Bounds of the model *)

\* largest id the table hands out before the model stops adding rows
MaxId == 2
\* last tick of the clock
MaxTime == 1
\* last tick of the clock where only the backups are followed
MaxBackupTime == 11
\* most data rows of an imported file
MaxRows == 2
\* most books of the store the queries are asked of
MaxBooks == 3
\* last tick of the clock where the file system raises
MaxDiskTime == 10
\* the count of mutating operations saturates here
MaxOps == 6

\* backups[5:] -- the number of snapshots retention keeps
MaxBackups == 5
\* clock ticks (the resolution of a file's mtime) per second (the resolution
\* of the "%Y-%m-%d_%H-%M-%S" name of a backup)
TicksPerSecond == 2
\* datetime.now().year
CurrentYear == 2026

---------------------------------------------------------------------------
(* Characters and text *)

CR == "\\r"
LF == "\\n"
QUOTE == "\""
COMMA == ","

Digits == <<"0", "1", "2", "3", "4", "5", "6", "7", "8", "9">>

IsDigit(c) == \E i \in 1..10 : Digits[i] = c

DigitVal(c) == (CHOOSE i \in 1..10 : Digits[i] = c) - 1

AllDigits(s) == \A i \in 1..Len(s) : IsDigit(s[i])

RECURSIVE DigitsVal(_)
DigitsVal(s) ==
    IF s = <<>> THEN 0
    ELSE 10 * DigitsVal(SubSeq(s, 1, Len(s) - 1)) + DigitVal(s[Len(s)])

\* the text without its sign, and the sign
Unsigned(s) == IF s # <<>> /\ s[1] \in {"-", "+"} THEN Tail(s) ELSE s
Negative(s) == s # <<>> /\ s[1] = "-"

\* int(text): an optional sign and at least one digit, else ValueError
ParseInt(s) ==
    LET u == Unsigned(s) IN
    IF u # <<>> /\ AllDigits(u)
    THEN [ok |-> TRUE, val |-> IF Negative(s) THEN 0 - DigitsVal(u) ELSE DigitsVal(u)]
    ELSE [ok |-> FALSE, val |-> 0]

\* position of the first "." of s, or 0
DotPos(s) ==
    IF \E i \in 1..Len(s) : s[i] = "."
    THEN CHOOSE i \in 1..Len(s) : s[i] = "." /\ \A j \in 1..(i - 1) : s[j] # "."
    ELSE 0

\* float(text), in tenths: sign, digits, optionally "." and one more digit;
\* anything else is a ValueError
ParseFloat(s) ==
    LET u == Unsigned(s)
        d == DotPos(u)
        ip == IF d = 0 THEN u ELSE SubSeq(u, 1, d - 1)
        fp == IF d = 0 THEN <<>> ELSE SubSeq(u, d + 1, Len(u))
        mag == 10 * DigitsVal(ip) + (IF fp = <<>> THEN 0 ELSE DigitVal(fp[1]))
    IN
    IF /\ AllDigits(ip) /\ AllDigits(fp) /\ Len(fp) <= 1
       /\ Len(ip) + Len(fp) >= 1
    THEN [ok |-> TRUE, val |-> IF Negative(s) THEN 0 - mag ELSE mag]
    ELSE [ok |-> FALSE, val |-> 0]

RECURSIVE NatText(_)
NatText(n) ==
    IF n < 10 THEN <<Digits[n + 1]>>
    ELSE NatText(n \div 10) \o <<Digits[(n % 10) + 1]>>

\* str(int), as csv.writer writes an integer column
FormatInt(n) == IF n < 0 THEN <<"-">> \o NatText(0 - n) ELSE NatText(n)

\* repr(float) of a price in tenths, as csv.writer writes a REAL column
FormatFloat(p) ==
    LET m == IF p < 0 THEN 0 - p ELSE p IN
    (IF p < 0 THEN <<"-">> ELSE <<>>) \o NatText(m \div 10) \o <<".">> \o NatText(m % 10)

---------------------------------------------------------------------------
(* csv.writer, excel dialect: QUOTE_MINIMAL, doublequote, lineterminator \r\n *)

NeedsQuote(f) == \E i \in 1..Len(f) : f[i] \in {COMMA, QUOTE, CR, LF}

RECURSIVE DoubleQuotes(_)
DoubleQuotes(f) ==
    IF f = <<>> THEN <<>>
    ELSE (IF f[1] = QUOTE THEN <<QUOTE, QUOTE>> ELSE <<f[1]>>) \o DoubleQuotes(Tail(f))

CsvField(f) == IF NeedsQuote(f) THEN <<QUOTE>> \o DoubleQuotes(f) \o <<QUOTE>> ELSE f

RECURSIVE JoinFields(_)
JoinFields(fs) ==
    IF fs = <<>> THEN <<>>
    ELSE IF Len(fs) = 1 THEN CsvField(fs[1])
    ELSE CsvField(fs[1]) \o <<COMMA>> \o JoinFields(Tail(fs))

\* writer.writerow(fields)
CsvWriteRow(fs) == JoinFields(fs) \o <<CR, LF>>

---------------------------------------------------------------------------
(* open(path, 'r') without newline='': universal newlines turn \r\n and a  *)
(* lone \r into \n before csv.reader sees the text                        *)

RECURSIVE UniversalNewlines(_)
UniversalNewlines(s) ==
    IF s = <<>> THEN <<>>
    ELSE IF s[1] = CR
         THEN <<LF>> \o UniversalNewlines(
                  IF Len(s) >= 2 /\ s[2] = LF THEN SubSeq(s, 3, Len(s)) ELSE Tail(s))
         ELSE <<s[1]>> \o UniversalNewlines(Tail(s))

---------------------------------------------------------------------------
(* csv.reader, excel dialect, not strict. The reader is fed line by line;  *)
(* a record that holds a quoted line break spans several lines. Each       *)
(* record is kept with line_num as it stands when the record is returned.  *)

SaveField(st) == [st EXCEPT !.fields = Append(st.fields, st.field), !.field = <<>>]

AddChar(st, c) == [st EXCEPT !.field = Append(st.field, c)]

Goto(st, s) == [st EXCEPT !.state = s]

StartField(st, c) ==
    IF c \in {LF, CR} THEN Goto(SaveField(st), "EAT_CRNL")
    ELSE IF c = QUOTE THEN Goto(st, "IN_QUOTED_FIELD")
    ELSE IF c = COMMA THEN Goto(SaveField(st), "START_FIELD")
    ELSE Goto(AddChar(st, c), "IN_FIELD")

\* parse_process_char for a character of the line
ProcessChar(st, c) ==
    CASE st.state = "START_RECORD" ->
            IF c \in {LF, CR} THEN Goto(st, "EAT_CRNL") ELSE StartField(st, c)
      [] st.state = "START_FIELD" -> StartField(st, c)
      [] st.state = "IN_FIELD" ->
            IF c \in {LF, CR} THEN Goto(SaveField(st), "EAT_CRNL")
            ELSE IF c = COMMA THEN Goto(SaveField(st), "START_FIELD")
            ELSE AddChar(st, c)
      [] st.state = "IN_QUOTED_FIELD" ->
            IF c = QUOTE THEN Goto(st, "QUOTE_IN_QUOTED_FIELD") ELSE AddChar(st, c)
      [] st.state = "QUOTE_IN_QUOTED_FIELD" ->
            IF c = QUOTE THEN Goto(AddChar(st, c), "IN_QUOTED_FIELD")
            ELSE IF c = COMMA THEN Goto(SaveField(st), "START_FIELD")
            ELSE IF c \in {LF, CR} THEN Goto(SaveField(st), "EAT_CRNL")
            ELSE Goto(AddChar(st, c), "IN_FIELD")
      [] st.state = "EAT_CRNL" ->
            IF c \in {LF, CR} THEN st ELSE Goto(st, "ERROR")
      [] OTHER -> st

\* parse_process_char(EOL) at the end of each line
ProcessEOL(st) ==
    CASE st.state \in {"START_FIELD", "IN_FIELD", "QUOTE_IN_QUOTED_FIELD"} ->
            Goto(SaveField(st), "START_RECORD")
      [] st.state = "EAT_CRNL" -> Goto(st, "START_RECORD")
      [] OTHER -> st

\* Reader_iternext returns the record once the state is START_RECORD again
Emit(st) ==
    IF st.state = "START_RECORD"
    THEN [st EXCEPT !.rows = Append(st.rows, [fields |-> st.fields, line_num |-> st.line_num]),
                    !.fields = <<>>]
    ELSE st

\* one character of the file; a line ends with its \n
ReadChar(st, c) ==
    LET s0 == IF st.fresh THEN [st EXCEPT !.line_num = st.line_num + 1, !.fresh = FALSE]
              ELSE st
        s1 == ProcessChar(s0, c)
    IN  IF c = LF THEN [Emit(ProcessEOL(s1)) EXCEPT !.fresh = TRUE] ELSE s1

\* end of input: the last line may lack its \n, and an open quoted field
\* is returned as it stands
ReadEOF(st) ==
    LET s1 == IF st.fresh THEN st ELSE Emit(ProcessEOL(st))
    IN  IF s1.state = "IN_QUOTED_FIELD"
        THEN Emit(Goto(SaveField(s1), "START_RECORD"))
        ELSE s1

RECURSIVE ReadFrom(_, _, _)
ReadFrom(s, i, st) ==
    IF st.state = "ERROR" THEN st
    ELSE IF i > Len(s) THEN ReadEOF(st)
    ELSE ReadFrom(s, i + 1, ReadChar(st, s[i]))

\* list(csv.reader(lines of s)): the records, and whether csv.Error was raised
CsvReader(s) ==
    ReadFrom(s, 1, [state |-> "START_RECORD", field |-> <<>>, fields |-> <<>>,
                    rows |-> <<>>, line_num |-> 0, fresh |-> TRUE])

---------------------------------------------------------------------------
(* The table livros and its AUTOINCREMENT key *)

MaxOf(S) == IF S = {} THEN 0 ELSE CHOOSE m \in S : \A x \in S : x <= m

Min(a, b) == IF a <= b THEN a ELSE b

Ids(tab) == {l.id : l \in tab}

\* INTEGER PRIMARY KEY without AUTOINCREMENT: one more than the largest rowid
\* in the table, so the id of a deleted last row is handed out again
ReusedId(tab, sq) == MaxOf(Ids(tab)) + 1

\* id INTEGER PRIMARY KEY AUTOINCREMENT: one more than the largest rowid the
\* table ever held, which sqlite_sequence (sq) remembers
NextId(tab, sq) == MaxOf(Ids(tab) \cup {sq}) + 1

\* INSERT INTO livros (titulo, autor, ano_publicacao, preco) VALUES (?, ?, ?, ?)
Insert(db, titulo, autor, ano, preco) ==
    LET id == NextId(db.livros, db.seq) IN
    [livros |-> db.livros \cup {[id |-> id, titulo |-> titulo, autor |-> autor,
                                 ano_publicacao |-> ano, preco |-> preco]},
     seq |-> id]

\* the lookup left out: every id counts as found
ExisteSempre(tab, id) == TRUE

\* SELECT * FROM livros WHERE id = ?  (fetchone is not None)
Existe(tab, id) == \E l \in tab : l.id = id

\* the UPDATE without its WHERE: every row takes the price
UpdateTodos(tab, id, preco) == {[l EXCEPT !.preco = preco] : l \in tab}

\* UPDATE livros SET preco = ? WHERE id = ?
UpdatePreco(tab, id, preco) ==
    {IF l.id = id THEN [l EXCEPT !.preco = preco] ELSE l : l \in tab}

\* DELETE FROM livros WHERE id = ?
Delete(tab, id) == {l \in tab : l.id # id}

\* SELECT * FROM livros ORDER BY id
RECURSIVE OrderById(_)
OrderById(tab) ==
    IF tab = {} THEN <<>>
    ELSE LET l == CHOOSE x \in tab : \A y \in tab : x.id <= y.id
         IN  <<l>> \o OrderById(tab \ {l})

---------------------------------------------------------------------------
(* Backups: a file is its name, its mtime and its content *)

\* datetime.now().strftime("%Y-%m-%d_%H-%M-%S"): the second of the tick
Timestamp(t) == t \div TicksPerSecond

\* sorted(glob, key=getmtime, reverse=True)[5:] is unlinked. glob lists the
\* directory in no particular order and the sort is stable, so among files
\* of equal mtime any may be the ones kept: every set K of the right size
\* with no deleted file newer than a kept one is a possible outcome.
limpar_backups_antigos(bk) ==
    {K \in SUBSET bk :
        /\ Cardinality(K) = Min(MaxBackups, Cardinality(bk))
        /\ \A k \in K : \A d \in bk \ K : k.mtime >= d.mtime}

\* shutil.copy2(DB_PATH, backup_path): the copy carries the content and the
\* mtime of the database file, and replaces a file of the same name
Copy2(bk, tab, mt, t) ==
    {b \in bk : b.nome # Timestamp(t)}
        \cup {[nome |-> Timestamp(t), mtime |-> mt, conteudo |-> tab]}

\* the possible backup directories after fazer_backup() at tick t
fazer_backup(bk, tab, mt, t) == limpar_backups_antigos(Copy2(bk, tab, mt, t))

---------------------------------------------------------------------------
(* Handlers. A handler maps the world w (table, sqlite_sequence, mtime of  *)
(* the database file, backup directory) at tick t to the set of its        *)
(* possible outcomes; "ids" are the ids it assigned, "criados" the names   *)
(* of the snapshots it wrote, "mutou" whether it committed a change.       *)

Resposta(op, front, code, msg) ==
    [op |-> op, front |-> front, code |-> code, msg |-> msg, id |-> 0,
     req |-> [ano |-> <<>>, preco |-> <<>>, origem |-> "", texto |-> <<>>,
              autor |-> <<>>],
     importados |-> 0, erros |-> <<>>, snaps |-> 0, inseridos |-> 0,
     lista |-> <<>>, faixas |-> {}]

\* a return before fazer_backup(): nothing is touched
Rejeita(w, r) ==
    {[livros |-> w.livros, seq |-> w.seq, dbMtime |-> w.dbMtime,
      backups |-> w.backups, resp |-> r, ids |-> {}, criados |-> {},
      mutou |-> FALSE]}

\* the backup directories a fazer_backup() that raises may leave, none if
\* it does not raise. "copy": shutil.copy2 raises on opening the new file
\* and nothing is written; "unlink": backup.unlink() raises on the first
\* file retention would delete, the copy made and nothing deleted
Falhas(w, t) ==
    IF w.disco = "copy" THEN {w.backups}
    ELSE IF /\ w.disco = "unlink"
            /\ Cardinality(Copy2(w.backups, w.livros, w.dbMtime, t)) > MaxBackups
         THEN {Copy2(w.backups, w.livros, w.dbMtime, t)}
    ELSE {}

\* the OSError of fazer_backup() leaves the handler: a 400 from the except
\* branch of the API handlers, a 500 from criar_backup, which has none, and
\* the exception itself from the CLI; no statement is executed
Interrompe(w, t, r) ==
    {[livros |-> w.livros, seq |-> w.seq, dbMtime |-> w.dbMtime,
      backups |-> bk,
      resp |-> [r EXCEPT !.code = IF r.front = "cli" THEN "raise"
                                 ELSE IF r.op = "backup" THEN "500" ELSE "400",
                         !.msg = "OSError"],
      ids |-> {}, criados |-> {}, mutou |-> FALSE]
        : bk \in Falhas(w, t)}

\* a return after fazer_backup() that commits nothing
SoBackup(w, t, r) ==
    IF Falhas(w, t) # {} THEN Interrompe(w, t, r) ELSE
    {[livros |-> w.livros, seq |-> w.seq, dbMtime |-> w.dbMtime,
      backups |-> bk, resp |-> [r EXCEPT !.snaps = 1], ids |-> {},
      criados |-> {Timestamp(t)}, mutou |-> FALSE]
        : bk \in fazer_backup(w.backups, w.livros, w.dbMtime, t)}

\* the commit first and fazer_backup() after it: the snapshot holds the
\* table as written
GravaAntesDoBackup(w, t, tab, sq, r) ==
    {[livros |-> tab, seq |-> sq, dbMtime |-> t,
      backups |-> bk, resp |-> [r EXCEPT !.snaps = 1], ids |-> Ids(tab) \ Ids(w.livros),
      criados |-> {Timestamp(t)}, mutou |-> TRUE]
        : bk \in fazer_backup(w.backups, tab, t, t)}

\* the OSError of fazer_backup() swallowed: the statement is executed and
\* committed all the same
GravaApesarDaFalha(w, t, tab, sq, r) ==
    {[livros |-> tab, seq |-> sq, dbMtime |-> t,
      backups |-> bk,
      resp |-> IF Falhas(w, t) # {}
               THEN [r EXCEPT !.code = IF r.front = "cli" THEN "raise" ELSE "400",
                              !.msg = "OSError"]
               ELSE [r EXCEPT !.snaps = 1],
      ids |-> Ids(tab) \ Ids(w.livros),
      criados |-> {Timestamp(t)}, mutou |-> TRUE]
        : bk \in IF Falhas(w, t) # {} THEN Falhas(w, t)
                 ELSE fazer_backup(w.backups, w.livros, w.dbMtime, t)}

\* a return after fazer_backup() and a commit that leaves the table tab and
\* sqlite_sequence sq
Grava(w, t, tab, sq, r) ==
    IF Falhas(w, t) # {} THEN Interrompe(w, t, r) ELSE
    {[livros |-> tab, seq |-> sq, dbMtime |-> t,
      backups |-> bk, resp |-> [r EXCEPT !.snaps = 1], ids |-> Ids(tab) \ Ids(w.livros),
      criados |-> {Timestamp(t)}, mutou |-> TRUE]
        : bk \in fazer_backup(w.backups, w.livros, w.dbMtime, t)}

\* the range check without its upper end
AnoNaoNegativo(ano) == ~(ano < 0)

\* if ano_publicacao < 0 or ano_publicacao > datetime.now().year: refuse
AnoValido(ano) == ~(ano < 0 \/ ano > CurrentYear)

\* POST /api/livros
adicionar_livro(w, t, titulo, autor, ano, preco) ==
    LET a == ParseInt(ano)
        p == ParseFloat(preco)
        db == Insert(w, titulo, autor, a.val, p.val)
        r == [Resposta("add", "api", "201", "ok") EXCEPT !.req.ano = ano, !.req.preco = preco]
    IN  IF ~a.ok \/ ~p.ok
        THEN Rejeita(w, [r EXCEPT !.code = "400", !.msg = "ValueError"])
        ELSE IF ~AnoValido(a.val)
        THEN Rejeita(w, [r EXCEPT !.code = "400", !.msg = "Ano invalido"])
        ELSE IF p.val < 0
        THEN Rejeita(w, [r EXCEPT !.code = "400", !.msg = "Preco negativo"])
        ELSE Grava(w, t, db.livros, db.seq, [r EXCEPT !.id = db.seq])

\* menu option 1 and SistemaLivraria.adicionar_livro
SistemaLivraria_adicionar_livro(w, t, titulo, autor, ano, preco) ==
    LET a == ParseInt(ano)
        p == ParseFloat(preco)
        db == Insert(w, titulo, autor, a.val, p.val)
        r == [Resposta("add", "cli", "True", "ok") EXCEPT !.req.ano = ano, !.req.preco = preco]
    IN  IF titulo = <<>> \/ autor = <<>> \/ ano = <<>> \/ preco = <<>>
        THEN Rejeita(w, [r EXCEPT !.code = "None", !.msg = "Campos obrigatorios"])
        ELSE IF ~a.ok \/ ~p.ok
        THEN Rejeita(w, [r EXCEPT !.code = "False", !.msg = "ValueError"])
        ELSE IF ~AnoValido(a.val)
        THEN Rejeita(w, [r EXCEPT !.code = "False", !.msg = "Ano invalido"])
        ELSE IF p.val < 0
        THEN Rejeita(w, [r EXCEPT !.code = "False", !.msg = "Preco negativo"])
        ELSE Grava(w, t, db.livros, db.seq, [r EXCEPT !.id = db.seq])

\* PUT /api/livros/<id>
atualizar_preco(w, t, id, preco) ==
    LET p == ParseFloat(preco)
        r == [Resposta("update", "api", "200", "ok") EXCEPT
                  !.id = id, !.req.preco = preco]
    IN  IF ~p.ok
        THEN Rejeita(w, [r EXCEPT !.code = "400", !.msg = "ValueError"])
        ELSE IF p.val < 0
        THEN Rejeita(w, [r EXCEPT !.code = "400", !.msg = "Preco negativo"])
        ELSE IF ~Existe(w.livros, id)
        THEN SoBackup(w, t, [r EXCEPT !.code = "404", !.msg = "Nao encontrado"])
        ELSE Grava(w, t, UpdatePreco(w.livros, id, p.val), w.seq, r)

\* menu option 3 and SistemaLivraria.atualizar_preco
SistemaLivraria_atualizar_preco(w, t, id, preco) ==
    LET p == ParseFloat(preco)
        r == [Resposta("update", "cli", "True", "ok") EXCEPT
                  !.id = id, !.req.preco = preco]
    IN  IF preco = <<>>
        THEN Rejeita(w, [r EXCEPT !.code = "None", !.msg = "Campos obrigatorios"])
        ELSE IF ~p.ok
        THEN Rejeita(w, [r EXCEPT !.code = "False", !.msg = "ValueError"])
        ELSE IF p.val < 0
        THEN Rejeita(w, [r EXCEPT !.code = "False", !.msg = "Preco negativo"])
        ELSE IF ~Existe(w.livros, id)
        THEN SoBackup(w, t, [r EXCEPT !.code = "False", !.msg = "Nao encontrado"])
        ELSE Grava(w, t, UpdatePreco(w.livros, id, p.val), w.seq, r)

\* DELETE /api/livros/<id>
remover_livro(w, t, id) ==
    LET r == [Resposta("remove", "api", "200", "ok") EXCEPT !.id = id]
    IN  IF ~Existe(w.livros, id)
        THEN SoBackup(w, t, [r EXCEPT !.code = "404", !.msg = "Nao encontrado"])
        ELSE Grava(w, t, Delete(w.livros, id), w.seq, r)

\* menu option 4 (confirmed) and SistemaLivraria.remover_livro
SistemaLivraria_remover_livro(w, t, id) ==
    LET r == [Resposta("remove", "cli", "True", "ok") EXCEPT !.id = id]
    IN  IF ~Existe(w.livros, id)
        THEN SoBackup(w, t, [r EXCEPT !.code = "False", !.msg = "Nao encontrado"])
        ELSE Grava(w, t, Delete(w.livros, id), w.seq, r)

\* POST /api/backup, and menu option 8
criar_backup(w, t, front) ==
    SoBackup(w, t, Resposta("backup", front, IF front = "api" THEN "200" ELSE "None", "ok"))

---------------------------------------------------------------------------
(* Requests of the model *)

Fronts == {"api", "cli"}

\* writer.writerow(['ID', 'Titulo', 'Autor', 'Ano de Publicacao', 'Preco'])
Cabecalho == <<<<"I", "D">>, <<"T">>, <<"A">>, <<"A", "n", "o">>, <<"P">>>>

Livro(titulo, autor, ano, preco) ==
    [titulo |-> titulo, autor |-> autor, ano |-> ano, preco |-> preco]

T == <<"T">>
A == <<"A">>
Ano2026 == <<"2", "0", "2", "6">>
Ano2027 == <<"2", "0", "2", "7">>
Preco10 == <<"1", "0", ".", "0">>
Preco20 == <<"2", "0">>
Menos1 == <<"-", "1">>
Letra == <<"x">>

\* request bodies of POST /api/livros and answers to the prompts of option 1:
\* a valid book, a year after this one, a negative year, a negative price,
\* a year that is no number
AddInputs ==
    { Livro(T, A, Ano2026, Preco10), Livro(T, A, Ano2027, Preco10),
      Livro(T, A, Menos1, Preco10), Livro(T, A, Ano2026, Menos1),
      Livro(T, A, Letra, Preco10) }

\* request bodies of PUT /api/livros/<id> and answers to the prompt of option 3
PrecoInputs == {Preco20, Menos1}

RECURSIVE RawLine(_)
RawLine(fs) ==
    IF fs = <<>> THEN <<LF>>
    ELSE IF Len(fs) = 1 THEN fs[1] \o <<LF>>
    ELSE fs[1] \o <<COMMA>> \o RawLine(Tail(fs))

RECURSIVE RawLines(_)
RawLines(ls) == IF ls = <<>> THEN <<>> ELSE RawLine(ls[1]) \o RawLines(Tail(ls))

Arquivo(texto) == [presente |-> TRUE, texto |-> texto, origem |-> "upload"]

SemArquivo == [presente |-> FALSE, texto |-> <<>>, origem |-> "upload"]

LinhaBoa == <<<<"7">>, T, A, Ano2026, Preco10>>
LinhaPrecoLetra == <<<<"7">>, T, A, Ano2026, Letra>>

\* n good rows
RECURSIVE Boas(_)
Boas(n) == IF n = 0 THEN <<>> ELSE <<LinhaBoa>> \o Boas(n - 1)

\* the uploaded files: no file, and a header followed by up to MaxRows good
\* rows, or by a row whose price is no number and a good row
Arquivos ==
    {SemArquivo, Arquivo(RawLine(Cabecalho) \o RawLines(<<LinhaPrecoLetra, LinhaBoa>>))}
        \cup {Arquivo(RawLine(Cabecalho) \o RawLines(Boas(n))) : n \in 0..MaxRows}

\* The imports in detail: uploads with bad, short and multi-line rows, and
\* adds with an empty title or author
TT == <<"T", LF, "T">>
LinhaDuasLinhas == <<<<"7">>, <<QUOTE>> \o TT \o <<QUOTE>>, A, Ano2026, Preco10>>
LinhaCurta == <<T, A>>
LinhaAnoNegativo == <<<<"7">>, T, A, Menos1, Preco10>>
LinhaSemTitulo == <<<<"7">>, <<>>, A, Ano2026, Preco10>>

\* the sequences over S of length at most n
RECURSIVE SeqsUpTo(_, _)
SeqsUpTo(S, n) ==
    IF n = 0 THEN {<<>>}
    ELSE LET r == SeqsUpTo(S, n - 1) IN r \cup {Append(q, x) : q \in r, x \in S}

ArquivosImport ==
    {SemArquivo, Arquivo(<<>>)}
        \cup {Arquivo(RawLine(Cabecalho) \o RawLines(ls)) :
                ls \in SeqsUpTo({LinhaBoa, LinhaPrecoLetra, LinhaDuasLinhas, LinhaCurta,
                                 LinhaAnoNegativo, LinhaSemTitulo}, MaxRows)}

AddInputsImport ==
    { Livro(T, A, Ano2026, Preco10), Livro(<<>>, A, Ano2026, Preco10),
      Livro(T, <<>>, Ano2026, Preco10) }

\* every file of the model read once: csv.reader over the text as
\* open(path, 'r', encoding='utf-8') delivers it
Lidos ==
    {[texto |-> a.texto, lido |-> CsvReader(UniversalNewlines(a.texto))] : a \in Arquivos}

LidosImport ==
    {[texto |-> a.texto, lido |-> CsvReader(UniversalNewlines(a.texto))] :
        a \in ArquivosImport}

---------------------------------------------------------------------------
(* CSV export and import *)

RECURSIVE WriteRows(_)
WriteRows(ls) ==
    IF ls = <<>> THEN <<>>
    ELSE CsvWriteRow(<<FormatInt(ls[1].id), ls[1].titulo, ls[1].autor,
                       FormatInt(ls[1].ano_publicacao), FormatFloat(ls[1].preco)>>)
             \o WriteRows(Tail(ls))

\* exportar_csv / exportar_para_csv: the text of the file written with
\* newline='' (fetchall of SELECT * FROM livros ORDER BY id)
ExportText(tab) == CsvWriteRow(Cabecalho) \o WriteRows(OrderById(tab))

\* csv.reader(open(path, 'r', encoding='utf-8')), run to the end
Reader(texto) ==
    IF \E c \in Lidos : c.texto = texto
    THEN (CHOOSE c \in Lidos : c.texto = texto).lido
    ELSE IF \E c \in LidosImport : c.texto = texto
    THEN (CHOOSE c \in LidosImport : c.texto = texto).lido
    ELSE CsvReader(UniversalNewlines(texto))

Erro(acc, idx, motivo) ==
    [acc EXCEPT !.erros = Append(acc.erros, [linha |-> idx, motivo |-> motivo])]

\* the body of "for idx, row in enumerate(reader, start=2)" for one row;
\* validar is TRUE in app.py, whose loop checks year and price, and FALSE in
\* sistema_livraria.py, whose loop does not
ImportRow(acc, row, idx, validar) ==
    LET a == ParseInt(row[4])
        p == ParseFloat(row[5])
        db == Insert(acc, row[2], row[3], a.val, p.val)
    IN  IF Len(row) < 5 THEN acc
        ELSE IF Len(row) > 5 THEN Erro(acc, idx, "ValueError")
        ELSE IF ~a.ok \/ ~p.ok THEN Erro(acc, idx, "ValueError")
        ELSE IF validar /\ ~AnoValido(a.val) THEN Erro(acc, idx, "Ano invalido")
        ELSE IF validar /\ p.val < 0 THEN Erro(acc, idx, "Preco invalido")
        ELSE [acc EXCEPT !.livros = db.livros, !.seq = db.seq,
                         !.importados = acc.importados + 1]

\* rows[i..n] through the loop; rows[1] is the header that next(reader) drops
RECURSIVE ImportRows(_, _, _, _, _)
ImportRows(rows, i, n, acc, validar) ==
    IF i > n THEN acc
    ELSE ImportRows(rows, i + 1, n, ImportRow(acc, rows[i].fields, i, validar), validar)

\* every INSERT committed as it is executed
CommitPorLinha(w, acc) == [livros |-> acc.livros, seq |-> acc.seq]

\* what the table is after the handler returns without conn.commit(): the
\* connection is dropped and its pending INSERTs are rolled back
SemCommit(w, acc) == [livros |-> w.livros, seq |-> w.seq]

\* the import loop over the text, the stream raising as the reader fetches
\* what follows data row falha - 1, be it data row falha or the end of the
\* file (0: it never raises)
Importacao(w, texto, falha, validar) ==
    LET rd == Reader(texto)
        rows == rd.rows
        vazio == Len(rows) = 0 /\ rd.state # "ERROR"
        aborta == rd.state = "ERROR" \/ (falha > 0 /\ falha <= Len(rows))
        n == IF falha > 0 /\ falha <= Len(rows) THEN falha ELSE Len(rows)
        acc == ImportRows(rows, 2, n,
                          [livros |-> w.livros, seq |-> w.seq, importados |-> 0,
                           erros |-> <<>>], validar)
    IN  [vazio |-> vazio, aborta |-> aborta, acc |-> acc]

\* what follows the loop im of an import: the commit and the answer, or the
\* exception that leaves before the commit
FimImportacao(w, t, im, r, rErro) ==
    LET fim == IF im.vazio \/ im.aborta THEN SemCommit(w, im.acc)
               ELSE [livros |-> im.acc.livros, seq |-> im.acc.seq]
        mudou == fim.livros # w.livros
    IN  IF Falhas(w, t) # {} THEN Interrompe(w, t, r) ELSE
        {[livros |-> fim.livros, seq |-> fim.seq,
          dbMtime |-> IF mudou THEN t ELSE w.dbMtime,
          backups |-> bk,
          resp |-> IF im.vazio \/ im.aborta
                   THEN [rErro EXCEPT !.snaps = 1, !.inseridos = im.acc.importados]
                   ELSE [r EXCEPT !.snaps = 1, !.importados = im.acc.importados,
                                  !.inseridos = im.acc.importados,
                                  !.erros = im.acc.erros],
          ids |-> Ids(fim.livros) \ Ids(w.livros),
          criados |-> {Timestamp(t)}, mutou |-> mudou]
            : bk \in fazer_backup(w.backups, w.livros, w.dbMtime, t)}

\* the outcomes of an import that got past fazer_backup()
Importa(w, t, texto, falha, validar, r, rErro) ==
    FimImportacao(w, t, Importacao(w, texto, falha, validar), r, rErro)

\* POST /api/importar-csv
importar_csv(w, t, arq, falha) ==
    LET r == [Resposta("import", "api", "200", "ok") EXCEPT
                  !.req.origem = arq.origem, !.req.texto = arq.texto]
    IN  IF ~arq.presente
        THEN Rejeita(w, [r EXCEPT !.code = "400", !.msg = "Nenhum arquivo"])
        ELSE Importa(w, t, arq.texto, falha, TRUE, r,
                     [r EXCEPT !.code = "400", !.msg = "Exception"])

\* menu option 7 and SistemaLivraria.importar_de_csv
SistemaLivraria_importar_de_csv(w, t, arq, falha) ==
    LET r == [Resposta("import", "cli", "True", "ok") EXCEPT
                  !.req.origem = arq.origem, !.req.texto = arq.texto]
    IN  IF ~arq.presente
        THEN Rejeita(w, [r EXCEPT !.code = "False", !.msg = "Nenhum arquivo"])
        ELSE Importa(w, t, arq.texto, falha, FALSE, r,
                     [r EXCEPT !.code = "raise", !.msg = "Exception"])

---------------------------------------------------------------------------
(* Queries *)

\* the characters of the queried texts, in the order of their code points:
\* ORDER BY titulo compares with the BINARY collation, byte by byte
Alfabeto == <<"%", "A", "T", "_", "a", "t">>
Code(c) == CHOOSE i \in 1..Len(Alfabeto) : Alfabeto[i] = c

\* LIKE folds the ASCII letters to one case before it compares them
Fold(c) == IF c = "A" THEN "a" ELSE IF c = "T" THEN "t" ELSE c

\* s LIKE pat: % matches any run of characters, _ any one character
RECURSIVE Like(_, _)
Like(pat, s) ==
    IF pat = <<>> THEN s = <<>>
    ELSE IF Head(pat) = "%"
         THEN Like(Tail(pat), s) \/ (s # <<>> /\ Like(pat, Tail(s)))
    ELSE /\ s # <<>>
         /\ (Head(pat) = "_" \/ Fold(Head(pat)) = Fold(Head(s)))
         /\ Like(Tail(pat), Tail(s))

\* a < b under BINARY
RECURSIVE TextLess(_, _)
TextLess(a, b) ==
    IF b = <<>> THEN FALSE
    ELSE IF a = <<>> THEN TRUE
    ELSE IF Head(a) = Head(b) THEN TextLess(Tail(a), Tail(b))
    ELSE Code(Head(a)) < Code(Head(b))

\* ORDER BY titulo: the orders in which the rows may come, rows of equal
\* title in any order
RECURSIVE OrderByTitulo(_)
OrderByTitulo(tab) ==
    IF tab = {} THEN {<<>>}
    ELSE UNION {{<<m>> \o rest : rest \in OrderByTitulo(tab \ {m})} :
                  m \in {x \in tab : \A y \in tab : ~TextLess(y.titulo, x.titulo)}}

\* GET /api/livros/buscar/<autor>, and menu option 5: the possible lists
buscar_por_autor(tab, autor) ==
    OrderByTitulo({l \in tab : Like(<<"%">> \o autor \o <<"%">>, l.autor)})

\* the CASE of the price distribution, with its bounds of 20, 50 and 100
\* taken inclusive
FaixaInclusiva(preco) ==
    IF preco <= 200 THEN "Ate R$ 20"
    ELSE IF preco <= 500 THEN "R$ 20-50"
    ELSE IF preco <= 1000 THEN "R$ 50-100"
    ELSE "Acima de R$ 100"

\* CASE WHEN preco < 20 ... WHEN preco < 50 ... WHEN preco < 100 ... ELSE;
\* prices are in tenths
Faixa(preco) ==
    IF preco < 200 THEN "Ate R$ 20"
    ELSE IF preco < 500 THEN "R$ 20-50"
    ELSE IF preco < 1000 THEN "R$ 50-100"
    ELSE "Acima de R$ 100"

\* GET /api/estatisticas, distribuicao_precos: SELECT faixa, COUNT(*) ...
\* GROUP BY faixa, one row for each band some book falls in
obter_estatisticas(tab) ==
    {[faixa |-> f, total |-> Cardinality({l \in tab : Faixa(l.preco) = f})] :
        f \in {Faixa(l.preco) : l \in tab}}

---------------------------------------------------------------------------
(* State machine *)

World ==
    [livros |-> livros, seq |-> seq, dbMtime |-> dbMtime, backups |-> backups,
     disco |-> disco]

\* the worker threads of app.run(), threaded by default
Threads == {1, 2}

\* a thread with no request
Parado == [pc |-> "idle", op |-> "", id |-> 0, preco |-> <<>>, code |-> ""]

\* criar_estrutura() and inicializar_banco() on a new installation
Init ==
    /\ livros = {}
    /\ seq = 0
    /\ dbMtime = 0
    /\ backups = {}
    /\ exportado = [existe |-> FALSE, texto |-> <<>>, livros |-> {}]
    /\ now = 0
    /\ resp = Resposta("init", "api", "None", "ok")
    /\ assigned = {}
    /\ created = {}
    /\ nops = 0
    /\ disco = "ok"
    /\ threads = [th \in Threads |-> Parado]

\* the request returns outcome o; hist says whether the run keeps the
\* history of snapshots and of committed requests
Returns(o, hist) ==
    /\ livros' = o.livros
    /\ seq' = o.seq
    /\ dbMtime' = o.dbMtime
    /\ backups' = o.backups
    /\ resp' = o.resp
    /\ assigned' = assigned \cup o.ids
    /\ created' = IF hist THEN created \cup o.criados ELSE created
    /\ nops' = IF hist /\ o.mutou THEN Min(nops + 1, MaxOps) ELSE nops
    /\ UNCHANGED <<now, exportado, disco, threads>>

Tick(max) ==
    /\ now < max
    /\ now' = now + 1
    /\ UNCHANGED <<livros, seq, dbMtime, backups, exportado, resp, assigned, created, nops,
                   disco, threads>>

\* a second passes
Second(max) ==
    /\ now + TicksPerSecond <= max
    /\ now' = now + TicksPerSecond
    /\ UNCHANGED <<livros, seq, dbMtime, backups, exportado, resp, assigned, created, nops,
                   disco, threads>>

Add(front, a, hist) ==
    /\ seq < MaxId
    /\ \E o \in IF front = "api"
                THEN adicionar_livro(World, now, a.titulo, a.autor, a.ano, a.preco)
                ELSE SistemaLivraria_adicionar_livro(World, now, a.titulo, a.autor, a.ano, a.preco) :
          Returns(o, hist)

UpdatePrice(front, id, preco, hist) ==
    \E o \in IF front = "api" THEN atualizar_preco(World, now, id, preco)
             ELSE SistemaLivraria_atualizar_preco(World, now, id, preco) :
        Returns(o, hist)

RemoveBook(front, id, hist) ==
    \E o \in IF front = "api" THEN remover_livro(World, now, id)
             ELSE SistemaLivraria_remover_livro(World, now, id) :
        Returns(o, hist)

Backup(front, hist) == \E o \in criar_backup(World, now, front) : Returns(o, hist)

\* the data rows of a file, as the reader counts them
DataRows(arq) ==
    LET n == Len(Reader(arq.texto).rows) IN IF n = 0 THEN 0 ELSE n - 1

Import(front, arq, falha, hist) ==
    /\ seq + DataRows(arq) <= MaxId
    /\ \E o \in IF front = "api" THEN importar_csv(World, now, arq, falha)
                ELSE SistemaLivraria_importar_de_csv(World, now, arq, falha) :
          Returns(o, hist)

\* GET /api/exportar-csv, and menu option 6 with exportar_para_csv
Export(front) ==
    /\ resp' = IF livros = {}
               THEN Resposta("export", front, IF front = "api" THEN "400" ELSE "False",
                             "Nenhum livro")
               ELSE Resposta("export", front, IF front = "api" THEN "200" ELSE "True", "ok")
    /\ exportado' = IF livros = {} THEN exportado
                    ELSE [existe |-> TRUE, texto |-> ExportText(livros), livros |-> livros]
    /\ UNCHANGED <<livros, seq, dbMtime, backups, now, assigned, created, nops, disco, threads>>

\* the exported file handed back: uploaded to the API, or read by option 7
\* from its default path
ImportExported(front, hist) ==
    Import(front, [presente |-> exportado.existe, texto |-> exportado.texto,
                   origem |-> "export"], 0, hist)

\* the program started in an empty directory, the exported file kept
NewStore ==
    /\ exportado.existe
    /\ livros # {}
    /\ livros' = {} /\ seq' = 0 /\ dbMtime' = now /\ backups' = {}
    /\ resp' = Resposta("init", "api", "None", "ok")
    /\ assigned' = {} /\ created' = {} /\ nops' = 0
    /\ UNCHANGED <<now, exportado, disco, threads>>

\* an add to the store the queries are asked of
AddBook(front, a) ==
    /\ seq < MaxBooks
    /\ \E o \in IF front = "api"
                THEN adicionar_livro(World, now, a.titulo, a.autor, a.ano, a.preco)
                ELSE SistemaLivraria_adicionar_livro(World, now, a.titulo, a.autor, a.ano, a.preco) :
          Returns(o, FALSE)

Search(front, autor) ==
    /\ \E l \in buscar_por_autor(livros, autor) :
          resp' = [Resposta("search", front, IF front = "api" THEN "200" ELSE "None", "ok")
                       EXCEPT !.req.autor = autor, !.lista = l]
    /\ UNCHANGED <<livros, seq, dbMtime, backups, exportado, now, assigned, created, nops,
                   disco, threads>>

Stats ==
    /\ resp' = [Resposta("stats", "api", "200", "ok")
                    EXCEPT !.faixas = obter_estatisticas(livros)]
    /\ UNCHANGED <<livros, seq, dbMtime, backups, exportado, now, assigned, created, nops,
                   disco, threads>>

\* the file system starts raising in the backup directory, at the copy or at
\* the unlink, and goes on raising from then on
Falha(d) ==
    /\ disco = "ok"
    /\ disco' = d
    /\ UNCHANGED <<livros, seq, dbMtime, backups, exportado, now, resp, assigned, created,
                   nops, threads>>

\* The handlers of PUT and DELETE /api/livros/<id> step by step, a thread
\* to a request: the statements of the two connections interleave, each
\* statement and each commit atomic under SQLite's file lock.

\* thread th takes a request up to fazer_backup(): an update first converts
\* and checks the price, and returns 400 without a snapshot if it is bad
Recebe(th, op, id, preco) ==
    LET p == ParseFloat(preco)
        ruim == op = "update" /\ (~p.ok \/ p.val < 0)
    IN  /\ threads[th].pc = "idle"
        /\ threads' = [threads EXCEPT ![th] =
               [pc |-> IF ruim THEN "done" ELSE "select", op |-> op, id |-> id,
                preco |-> preco, code |-> IF ruim THEN "400" ELSE ""]]
        /\ backups' \in IF ruim THEN {backups}
                       ELSE fazer_backup(backups, livros, dbMtime, now)
        /\ resp' = IF ruim
                   THEN [Resposta(op, "api", "400", IF p.ok THEN "Preco negativo" ELSE "ValueError")
                            EXCEPT !.id = id, !.req.preco = preco]
                   ELSE resp
        /\ UNCHANGED <<livros, seq, dbMtime, exportado, now, assigned, created, nops, disco>>

\* SELECT * FROM livros WHERE id = ? and fetchone(): 404 when there is no row
Consulta(th) ==
    LET r == threads[th]
        achou == Existe(livros, r.id)
    IN  /\ r.pc = "select"
        /\ threads' = [threads EXCEPT ![th].pc = IF achou THEN "write" ELSE "done",
                                      ![th].code = IF achou THEN "" ELSE "404"]
        /\ resp' = IF achou THEN resp
                   ELSE [Resposta(r.op, "api", "404", "Nao encontrado")
                            EXCEPT !.id = r.id, !.req.preco = r.preco, !.snaps = 1]
        /\ UNCHANGED <<livros, seq, dbMtime, backups, exportado, now, assigned, created,
                       nops, disco>>

\* the UPDATE or the DELETE, conn.commit() and the 200
Escreve(th) ==
    LET r == threads[th]
    IN  /\ r.pc = "write"
        /\ livros' = IF r.op = "update"
                     THEN UpdatePreco(livros, r.id, ParseFloat(r.preco).val)
                     ELSE Delete(livros, r.id)
        /\ dbMtime' = now
        /\ threads' = [threads EXCEPT ![th].pc = "done", ![th].code = "200"]
        /\ resp' = [Resposta(r.op, "api", "200", "ok")
                       EXCEPT !.id = r.id, !.req.preco = r.preco, !.snaps = 1]
        /\ UNCHANGED <<seq, backups, exportado, now, assigned, created, nops, disco>>

---------------------------------------------------------------------------
(* Specifications *)

Next ==
    \/ Tick(MaxTime)
    \/ \E f \in Fronts, a \in AddInputs : Add(f, a, FALSE)
    \/ \E f \in Fronts, id \in 1..MaxId, p \in PrecoInputs : UpdatePrice(f, id, p, FALSE)
    \/ \E f \in Fronts, id \in 1..MaxId : RemoveBook(f, id, FALSE)
    \/ \E f \in Fronts : Backup(f, FALSE)
    \/ \E f \in Fronts, arq \in Arquivos, falha \in 0..MaxRows : Import(f, arq, falha, FALSE)

Spec == Init /\ [][Next]_vars

\* The imports in detail
NextImport ==
    \/ \E f \in Fronts, a \in AddInputsImport : Add(f, a, FALSE)
    \/ \E f \in Fronts, arq \in ArquivosImport : Import(f, arq, 0, FALSE)

SpecImport == Init /\ [][NextImport]_vars

\* The round trip: books whose titles hold a comma and a quote, a line feed,
\* a carriage return; export; a new store or the old one emptied; import
TitulosRoundTrip == {T, <<QUOTE, COMMA>>, TT, <<"T", CR, "T">>}

NextRoundTrip ==
    \/ \E f \in Fronts, t \in TitulosRoundTrip : Add(f, Livro(t, A, Ano2026, Preco10), FALSE)
    \/ \E f \in Fronts, id \in 1..MaxId : RemoveBook(f, id, FALSE)
    \/ \E f \in Fronts : Export(f)
    \/ NewStore
    \/ \E f \in Fronts : ImportExported(f, FALSE)

SpecRoundTrip == Init /\ [][NextRoundTrip]_vars

\* The backups in detail: a long clock, requests that all commit, and the
\* history of the snapshots written
NextBackup ==
    \/ Tick(MaxBackupTime)
    \/ Add("api", Livro(T, A, Ano2026, Preco10), TRUE)
    \/ UpdatePrice("api", 1, Preco20, TRUE)

SpecBackup == Init /\ [][NextBackup]_vars

\* The queries: a store of up to MaxBooks books whose titles, authors and
\* prices differ in case and in band, and the searches asked of it
Preco30 == <<"3", "0", ".", "0">>
Preco50 == <<"5", "0", ".", "0">>
Preco100 == <<"1", "0", "0", ".", "0">>
Preco110 == <<"1", "1", "0", ".", "0">>

Acervo ==
    { Livro(<<"T">>, <<"A">>, Ano2026, Preco10),
      Livro(<<"a">>, <<"T", "a">>, Ano2026, Preco30),
      Livro(<<"A">>, <<"A">>, Ano2026, Preco110),
      Livro(<<"T">>, <<"a">>, Ano2026, Preco20),
      Livro(<<"a">>, <<"t">>, Ano2026, Preco50),
      Livro(<<"t">>, <<"T", "a">>, Ano2026, Preco100) }

Padroes == {<<"A">>, <<"a">>, <<"T", "a">>, <<"a", "T">>, <<"_">>, <<"%">>}

NextQuery ==
    \/ \E f \in Fronts, a \in Acervo : AddBook(f, a)
    \/ \E f \in Fronts, autor \in Padroes : Search(f, autor)
    \/ Stats

SpecQuery == Init /\ [][NextQuery]_vars

\* The faults: a clock long enough for retention to have a file to delete,
\* the four mutating requests, and the file system raising at any time
NextDisk ==
    \/ Second(MaxDiskTime)
    \/ \E d \in {"copy", "unlink"} : Falha(d)
    \/ Add("api", Livro(T, A, Ano2026, Preco10), FALSE)
    \/ UpdatePrice("cli", 1, Preco20, FALSE)
    \/ RemoveBook("api", 1, FALSE)
    \/ Import("cli", Arquivo(RawLine(Cabecalho) \o RawLines(Boas(1))), 0, FALSE)

SpecDisk == Init /\ [][NextDisk]_vars

\* The API under two requests at a time: books are added, and each thread
\* handles one update or one remove
NextConcurrent ==
    \/ Tick(MaxTime)
    \/ Add("api", Livro(T, A, Ano2026, Preco10), FALSE)
    \/ \E th \in Threads, id \in 1..MaxId :
          \/ \E p \in PrecoInputs : Recebe(th, "update", id, p)
          \/ Recebe(th, "remove", id, <<>>)
    \/ \E th \in Threads : Consulta(th)
    \/ \E th \in Threads : Escreve(th)

SpecConcurrent == Init /\ [][NextConcurrent]_vars

---------------------------------------------------------------------------
(* Vocabulary of the properties *)

\* the step is a request of kind op: every request answers, and only the
\* clock's tick changes now
Request(op) == now' = now /\ resp'.op = op

Sucesso(r) == r.code \in {"200", "201", "True"}

\* a 400 (API) or a False / no call (CLI) that names a bad input
ValidationError(r) ==
    /\ r.code \in {"400", "False", "None"}
    /\ r.msg \in {"ValueError", "Ano invalido", "Preco negativo", "Campos obrigatorios"}

\* a 404 (API) or a False with "nao encontrado" (CLI)
NotFound(r) == r.code \in {"404", "False"} /\ r.msg = "Nao encontrado"

\* the request carried a year that parses and is out of range
BadYear(r) ==
    LET a == ParseInt(r.req.ano) IN a.ok /\ (a.val < 0 \/ a.val > CurrentYear)

\* the request carried a price that parses and is negative
BadPrice(r) ==
    LET p == ParseFloat(r.req.preco) IN p.ok /\ p.val < 0

\* the request carried a price that parses and is not negative
GoodPrice(r) ==
    LET p == ParseFloat(r.req.preco) IN p.ok /\ p.val >= 0

\* listar_livros: SELECT * FROM livros ORDER BY id
listAll(tab) == OrderById(tab)

---------------------------------------------------------------------------
(* C1 *)

\* C1: a successful addBook leaves listAll with exactly one more record,
\* and the id of the new record is greater than every id assigned before,
\* the ids of removed records included.
C1_AddAssignsFreshId ==
    [][ (Request("add") /\ Sucesso(resp')) =>
            /\ Len(listAll(livros')) = Len(listAll(livros)) + 1
            /\ resp'.id \in Ids(livros') \ Ids(livros)
            /\ \A i \in assigned : resp'.id > i ]_vars

\* an add succeeded after a record with a smaller id had been removed
C1_Witness ==
    /\ resp.op = "add" /\ Sucesso(resp)
    /\ \E i \in assigned \ Ids(livros) : i < resp.id

---------------------------------------------------------------------------
(* C2 *)

\* C2: an addBook whose year is negative or after the current year, and an
\* addBook or updatePrice whose price is negative, fails with a validation
\* error, leaves the table as it was and takes no snapshot.
C2_InvalidInputRejected ==
    [][ ( \/ Request("add") /\ (BadYear(resp') \/ BadPrice(resp'))
          \/ Request("update") /\ BadPrice(resp') ) =>
            /\ ValidationError(resp')
            /\ livros' = livros /\ seq' = seq /\ dbMtime' = dbMtime
            /\ backups' = backups /\ resp'.snaps = 0 ]_vars

\* an add with a year after the current one was refused while the table
\* held a book and the backup directory a snapshot
C2_Witness ==
    /\ resp.op = "add" /\ BadYear(resp) /\ ValidationError(resp)
    /\ livros # {} /\ backups # {}

---------------------------------------------------------------------------
(* C3 *)

\* the snapshot a request at the current tick writes of the current database
Snapshot == [nome |-> Timestamp(now), mtime |-> dbMtime, conteudo |-> livros]

\* C3: updatePrice with a non-negative price, and removeBook, on an id that
\* is not in the table fail with NotFound, leave every record as it was, and
\* do nothing but take the one snapshot.
C3_MissingIdNotFound ==
    [][ ( /\ \/ Request("update") /\ GoodPrice(resp')
             \/ Request("remove")
          /\ resp'.id \notin Ids(livros) ) =>
            /\ NotFound(resp')
            /\ livros' = livros /\ seq' = seq /\ dbMtime' = dbMtime
            /\ exportado' = exportado
            /\ resp'.snaps = 1
            /\ backups' \subseteq backups \cup {Snapshot} ]_vars

\* a remove of an id that had been removed before answered NotFound
C3_Witness ==
    /\ resp.op = "remove" /\ NotFound(resp)
    /\ resp.id \in assigned /\ livros # {} /\ backups # {}

---------------------------------------------------------------------------
(* C5 *)

Mutating == {"add", "update", "remove", "import"}

\* the request was turned away before fazer_backup()
Refused(r) == ValidationError(r) \/ r.msg = "Nenhum arquivo"

\* C5: an add, updatePrice, removeBook or import that passes validation
\* takes exactly one snapshot, and the snapshot holds the table as it was
\* immediately before the operation, whatever the operation then writes.
C5_SnapshotBeforeWrite ==
    [][ (now' = now /\ resp'.op \in Mutating /\ ~Refused(resp')) =>
            /\ resp'.snaps = 1
            /\ backups' \subseteq backups \cup {Snapshot}
            /\ \A b \in backups' : b.nome = Timestamp(now) => b = Snapshot ]_vars

\* an import inserted two rows, and the snapshot of this second holds the
\* table without them
C5_Witness ==
    /\ resp.op = "import" /\ Sucesso(resp) /\ resp.importados = 2 /\ resp.snaps = 1
    /\ \E b \in backups :
          /\ b.nome = Timestamp(now)
          /\ b.conteudo \subseteq livros
          /\ Cardinality(livros) = Cardinality(b.conteudo) + 2

---------------------------------------------------------------------------
(* C10 *)

\* the import ended in an exception raised inside the loop
Aborted(r) == r.op = "import" /\ r.msg = "Exception"

---------------------------------------------------------------------------
(* C4 *)

\* the n largest elements of a set of numbers
RECURSIVE Largest(_, _)
Largest(S, n) ==
    IF n = 0 \/ S = {} THEN {}
    ELSE {MaxOf(S)} \cup Largest(S \ {MaxOf(S)}, n - 1)

\* C4: once more than 5 mutating operations have been committed, at any
\* times, exactly 5 backup snapshots exist and they are the 5 most recently
\* created ones.
C4_FiveMostRecentSnapshots ==
    nops > MaxBackups =>
        /\ Cardinality(backups) = MaxBackups
        /\ {b.nome : b \in backups} = Largest(created, MaxBackups)

---------------------------------------------------------------------------
(* C6, C7 *)

\* C6: every stored book has a year between 0 and the current year and a
\* price that is not negative, whichever front end or import wrote it.
C6_StoredYearAndPriceValid ==
    \A l \in livros : l.ano_publicacao >= 0 /\ l.ano_publicacao <= CurrentYear /\ l.preco >= 0

\* C7: every stored book has a non-empty title and a non-empty author.
C7_StoredTitleAndAuthorNonEmpty ==
    \A l \in livros : l.titulo # <<>> /\ l.autor # <<>>

---------------------------------------------------------------------------
(* C8 *)

\* a set of numbers in ascending order
RECURSIVE Ascending(_)
Ascending(S) ==
    IF S = {} THEN <<>>
    ELSE LET m == CHOOSE x \in S : \A y \in S : x <= y
         IN  <<m>> \o Ascending(S \ {m})

\* the row has five fields or more, its year and price parse and validate
RowOk(f) ==
    /\ Len(f) >= 5
    /\ ParseInt(f[4]).ok /\ ParseFloat(f[5]).ok
    /\ ParseInt(f[4]).val >= 0 /\ ParseInt(f[4]).val <= CurrentYear
    /\ ParseFloat(f[5]).val >= 0

\* the line of the file on which row i begins, the header being line 1
FirstLine(rows, i) == IF i = 1 THEN 1 ELSE rows[i - 1].line_num + 1

\* C8: a successful import through the API returns the number of data rows
\* of five fields or more that parse and validate, each inserted, and one
\* error for every other data row of five fields or more, in file order,
\* each naming the line of the file on which its row is; rows of fewer than
\* five fields count nowhere.
C8_CountAndErrorsByLine ==
    [][ (Request("import") /\ resp'.front = "api" /\ Sucesso(resp')) =>
            LET rows == Reader(resp'.req.texto).rows
                good == {i \in 2..Len(rows) : RowOk(rows[i].fields)}
                bad == Ascending({i \in 2..Len(rows) :
                                    Len(rows[i].fields) >= 5 /\ ~RowOk(rows[i].fields)})
            IN  /\ resp'.importados = Cardinality(good)
                /\ Cardinality(livros') = Cardinality(livros) + Cardinality(good)
                /\ Len(resp'.erros) = Len(bad)
                /\ \A k \in 1..Len(bad) :
                       resp'.erros[k].linha = FirstLine(rows, bad[k]) ]_vars

---------------------------------------------------------------------------
(* C9 *)

Campos(l) == <<l.titulo, l.autor, l.ano_publicacao, l.preco>>

\* C9: importing the file an export wrote into an empty store succeeds with
\* no errors and leaves as many books as were exported, with the same
\* title, author, year and price, in the same order.
C9_ExportImportRoundTrip ==
    [][ (Request("import") /\ resp'.req.origem = "export"
            /\ exportado.existe /\ livros = {}) =>
            LET antes == listAll(exportado.livros)
                depois == listAll(livros')
            IN  /\ Sucesso(resp') /\ resp'.erros = <<>>
                /\ Len(depois) = Len(antes)
                /\ \A k \in 1..Len(antes) : Campos(depois[k]) = Campos(antes[k]) ]_vars

---------------------------------------------------------------------------
(* C11 *)

\* p occurs in s, character for character
Contains(s, p) ==
    \E i \in 0..(Len(s) - Len(p)) : SubSeq(s, i + 1, i + Len(p)) = p

\* the answer is an error
Falhou(r) == r.code \in {"400", "404", "500", "False", "raise"}

\* C11: a search returns exactly the stored books whose author contains the
\* pattern as a case-sensitive literal substring, each once, ordered by
\* title; it is not an error when none matches, and it changes neither the
\* table nor the backups.
C11_SearchByAuthorSubstring ==
    [][ Request("search") =>
            LET l == resp'.lista
            IN  /\ ~Falhou(resp')
                /\ {l[k] : k \in 1..Len(l)} =
                       {b \in livros : Contains(b.autor, resp'.req.autor)}
                /\ Len(l) = Cardinality({l[k] : k \in 1..Len(l)})
                /\ \A j, k \in 1..Len(l) : j < k => ~TextLess(l[k].titulo, l[j].titulo)
                /\ livros' = livros /\ seq' = seq /\ backups' = backups ]_vars

---------------------------------------------------------------------------
(* C12 *)

Faixas == {"Ate R$ 20", "R$ 20-50", "R$ 50-100", "Acima de R$ 100"}

\* the price p, in tenths, is in the band named f
NaFaixa(f, p) ==
    CASE f = "Ate R$ 20" -> p < 200
      [] f = "R$ 20-50" -> p >= 200 /\ p < 500
      [] f = "R$ 50-100" -> p >= 500 /\ p < 1000
      [] f = "Acima de R$ 100" -> p >= 1000

Contagem(tab, f) == Cardinality({l \in tab : NaFaixa(f, l.preco)})

RECURSIVE SomaTotais(_)
SomaTotais(es) ==
    IF es = {} THEN 0
    ELSE LET e == CHOOSE x \in es : TRUE IN e.total + SomaTotais(es \ {e})

\* C12, as claimed: the statistics report a count for each of the four
\* bands, a band with no book with count 0, and the counts sum to the
\* number of books.
C12_FourBandsReported ==
    [][ Request("stats") =>
            /\ \A f \in Faixas :
                   \E e \in resp'.faixas : e.faixa = f /\ e.total = Contagem(livros, f)
            /\ SomaTotais(resp'.faixas) = Cardinality(livros) ]_vars

\* C12, amended: the statistics report one count for each band that holds a
\* book, counting every book in exactly one band by its price, and nothing
\* for a band that holds none; the counts sum to the number of books.
C12_BandsWithBooksReported ==
    [][ Request("stats") =>
            /\ \A f \in Faixas :
                   {e.total : e \in {x \in resp'.faixas : x.faixa = f}} =
                       IF Contagem(livros, f) > 0 THEN {Contagem(livros, f)} ELSE {}
            /\ \A e \in resp'.faixas : e.faixa \in Faixas
            /\ Cardinality(resp'.faixas) = Cardinality({e.faixa : e \in resp'.faixas})
            /\ SomaTotais(resp'.faixas) = Cardinality(livros)
            /\ livros' = livros /\ backups' = backups ]_vars

\* the statistics of books priced 10, 30 and 110: one book in each of three
\* bands and no entry for the band from 50 to 100
C12_Witness ==
    /\ resp.op = "stats"
    /\ {l.preco : l \in livros} = {100, 300, 1100} /\ Cardinality(livros) = 3
    /\ resp.faixas = {[faixa |-> "Ate R$ 20", total |-> 1],
                      [faixa |-> "R$ 20-50", total |-> 1],
                      [faixa |-> "Acima de R$ 100", total |-> 1]}

---------------------------------------------------------------------------
(* C13 *)

\* the backup directory once the snapshot of this request is copied and
\* before retention deletes anything
Copiado == {b \in backups : b.nome # Snapshot.nome} \cup {Snapshot}

\* C13: when a snapshot call has completed, at most 5 backup files exist,
\* the snapshot just created is among them, and no snapshot that retention
\* deleted has a modification time later than that of one it kept.
C13_RetentionKeepsNewest ==
    [][ (now' = now /\ resp'.snaps = 1) =>
            /\ Cardinality(backups') <= MaxBackups
            /\ Snapshot \in backups'
            /\ \A d \in Copiado \ backups' : \A k \in backups' : d.mtime <= k.mtime ]_vars

---------------------------------------------------------------------------
(* C14 *)

\* C14: a successful updatePrice sets the price of the record of its id and
\* leaves the rest of that record and every other record as they were, a
\* successful removeBook deletes that one record and leaves every other as
\* it was, and no step changes the title, author or year of a record.
C14_UpdateRemoveFrame ==
    [][ /\ (Request("update") /\ Sucesso(resp')) =>
               \E l \in livros :
                   /\ l.id = resp'.id
                   /\ livros' = (livros \ {l})
                          \cup {[l EXCEPT !.preco = ParseFloat(resp'.req.preco).val]}
        /\ (Request("remove") /\ Sucesso(resp')) =>
               \E l \in livros : l.id = resp'.id /\ livros' = livros \ {l}
        /\ \A l \in livros : \A n \in livros' :
               l.id = n.id => /\ n.titulo = l.titulo /\ n.autor = l.autor
                              /\ n.ano_publicacao = l.ano_publicacao ]_vars

\* an update succeeded on one of two books: its price is the new one and
\* the other book has the price it was added with
C14_Witness ==
    /\ resp.op = "update" /\ Sucesso(resp)
    /\ Cardinality(livros) = 2
    /\ \E l \in livros : l.id = resp.id /\ l.preco = 200
    /\ \E l \in livros : l.id # resp.id /\ l.preco = 100

---------------------------------------------------------------------------
(* C15 *)

\* the snapshot step of a request made now fails: the copy raises, or
\* retention has a file to delete and its unlink raises
FalhaNoBackup ==
    \/ disco = "copy"
    \/ disco = "unlink" /\ Cardinality(Copiado) > MaxBackups

\* C15: when the snapshot step of an add, updatePrice, removeBook or import
\* that passed validation fails with a file system error, in the copy or in
\* retention, the operation reports the failure and the table is as it was.
C15_FailedSnapshotBlocksMutation ==
    [][ ( /\ now' = now /\ disco' = disco
          /\ resp'.op \in Mutating /\ ~Refused(resp')
          /\ FalhaNoBackup ) =>
            /\ Falhou(resp') /\ resp'.msg = "OSError"
            /\ livros' = livros /\ seq' = seq /\ dbMtime' = dbMtime ]_vars

\* an import failed in retention, the copy made and six files in the
\* directory, and the table still holds the book it held
C15_Witness ==
    /\ resp.op = "import" /\ resp.msg = "OSError" /\ Falhou(resp)
    /\ Cardinality(backups) > MaxBackups
    /\ livros # {}

---------------------------------------------------------------------------
(* C16 *)

\* thread th has answered its request of kind op for id with a 200
Respondeu200(ts, th, op, id) ==
    /\ ts[th].pc = "done" /\ ts[th].code = "200"
    /\ ts[th].op = op /\ ts[th].id = id

\* C16: of two removes of one id handled at the same time at most one
\* reports success, and an update that reports success while a remove of
\* its id is handled has changed the price of a record that existed when
\* the update was applied.
C16_ConcurrentSameId ==
    [][ /\ \A a, b \in Threads : \A id \in 1..MaxId :
               (a # b /\ Respondeu200(threads', a, "remove", id))
                   => ~Respondeu200(threads', b, "remove", id)
        /\ \A th \in Threads : \A id \in 1..MaxId :
               (threads[th].pc = "write" /\ Respondeu200(threads', th, "update", id))
                   => /\ id \in Ids(livros)
                      /\ \E l \in livros' :
                            l.id = id /\ l.preco = ParseFloat(threads[th].preco).val ]_vars

=============================================================================
